---- MODULE Spec2Model ----
(***************************************************************************)
(* Model of the WhatsApp lead-qualification webhook and its tiered pricing *)
(* engine (tscindustrial/vexiqo-whatsapp-webhook).                         *)
(*                                                                         *)
(* JavaScript values are represented as follows.                           *)
(*   - a nullable value is a sequence: <<>> is null/undefined, <<v>> is v; *)
(*   - a string is a sequence of atoms; the atom " " is whitespace, every  *)
(*     other atom is a run of non-whitespace characters, <<>> is "";       *)
(*   - amounts are whole pesos (integers).                                 *)
(***************************************************************************)
EXTENDS Integers, Sequences, FiniteSets, TLC

VARIABLES
  lead,           \* the Lead row of the sender: null or [name, email]
  convo,          \* the Conversation row: null or [state]
  qualification,  \* the Qualification row: null or the seven nullable fields
  quotes,         \* the Quote rows with their items, in insertion order
  turn,           \* what the last POST /webhooks/whatsapp did
  p_q0,           \* patch check: the stored record before the first patch
  p_ext,          \* patch check: the extraction applied
  p_q,            \* patch check: the row under src/src/crm.js
  p_qc,           \* patch check: the row under the cleanStr revision
  p_pc,           \* patch check: number of patches applied so far
  p_ret,          \* patch check: what the last call returned, null or the row
  p_writes,       \* patch check: number of updates issued to the store
  pr_d,           \* pricing check: requested durationDays
  pr_t,           \* pricing check: transportRoundTripMx
  pr_res,         \* pricing check: result of computeComparativeOptions
  pr_crm,         \* pricing check: rental base under the engine copy in src/src/crm.js
  pr_lines,       \* pricing check: result of buildOrderedOptions
  pr_best,        \* pricing check: the rows of the PDF table flagged as best per day
  pr_pc,          \* pricing check: "in" before the call, "out" after it
  v_duration,     \* input check: the durationDays given to the pricing call
  v_model,        \* input check: the equipmentModel given to the pricing call
  v_threw,        \* input check: whether the pricing call threw
  v_pc,           \* input check: "in" before the call, "out" after it
  c_row0,         \* concurrent patches: the stored row before either patch
  c_row,          \* concurrent patches: the stored row
  c_ext,          \* concurrent patches: the extraction of each handler
  c_data,         \* concurrent patches: the sparse update each handler built
  c_pc,           \* concurrent patches: where each handler is in the patch
  c_order,        \* concurrent patches: the handlers in the order they wrote
  g_rows,         \* concurrent first contact: the Qualification rows of the lead
  g_seen,         \* concurrent first contact: what findUnique gave each handler
  g_ret,          \* concurrent first contact: what each handler's call returned
  g_pc,           \* concurrent first contact: where each handler is
  g_msgs,         \* concurrent first contact: messages each handler has taken
  r_convo,        \* concurrent quotes: the persisted conversation state
  r_quotes,       \* concurrent quotes: the Quote rows as [by, quoteNumber]
  r_snap,         \* concurrent quotes: the conversation row each handler read
  r_count,        \* concurrent quotes: the quote count each handler read
  r_pc            \* concurrent quotes: where each handler is

mainVars == <<lead, convo, qualification, quotes, turn>>
patchVars == <<p_q0, p_ext, p_q, p_qc, p_pc, p_ret, p_writes>>
pricingVars == <<pr_d, pr_t, pr_res, pr_crm, pr_lines, pr_best, pr_pc>>
validateVars == <<v_duration, v_model, v_threw, v_pc>>
concVars == <<c_row0, c_row, c_ext, c_data, c_pc, c_order>>
qualVars == <<g_rows, g_seen, g_ret, g_pc, g_msgs>>
raceVars == <<r_convo, r_quotes, r_snap, r_count, r_pc>>
auxVars == <<g_rows, g_seen, g_ret, g_pc, g_msgs,
             r_convo, r_quotes, r_snap, r_count, r_pc>>
vars == <<lead, convo, qualification, quotes, turn,
          p_q0, p_ext, p_q, p_qc, p_pc, p_ret, p_writes,
          pr_d, pr_t, pr_res, pr_crm, pr_lines, pr_best, pr_pc,
          v_duration, v_model, v_threw, v_pc,
          c_row0, c_row, c_ext, c_data, c_pc, c_order,
          g_rows, g_seen, g_ret, g_pc, g_msgs,
          r_convo, r_quotes, r_snap, r_count, r_pc>>

----------------------------------------------------------------------------
(* Values *)

None == <<>>
Some(v) == <<v>>
Val(x) == x[1]

\* JS truthiness of a nullable string: null, undefined and "" are falsy.
TruthyStr(x) == x # None /\ Val(x) # <<>>

WS == " "

RECURSIVE TrimStart(_)
TrimStart(s) ==
  IF s # <<>> /\ Head(s) = WS THEN TrimStart(Tail(s)) ELSE s

RECURSIVE TrimEnd(_)
TrimEnd(s) ==
  IF s # <<>> /\ s[Len(s)] = WS THEN TrimEnd(SubSeq(s, 1, Len(s) - 1)) ELSE s

\* String.prototype.trim
Trim(s) == TrimEnd(TrimStart(s))

LowerAtom(a) ==
  CASE a = "Saltillo" -> "saltillo"
    [] a = "Arteaga" -> "arteaga"
    [] a = "Monterrey" -> "monterrey"
    [] a = "A@B.C" -> "a@b.c"
    [] OTHER -> a

\* String.prototype.toLowerCase
ToLowerCase(s) == [i \in 1..Len(s) |-> LowerAtom(s[i])]

\* String.prototype.includes
Includes(s, sub) ==
  \E i \in 0..(Len(s) - Len(sub)) : SubSeq(s, i + 1, i + Len(sub)) = sub

----------------------------------------------------------------------------
(* Pricing engine *)

VatPct == 16

\* Math.round(num / den) for den > 0: the nearest integer, a half rounding up.
roundMx(num, den) == (2 * num + den) \div (2 * den)

\* A faulty VAT: the fraction of a peso is dropped instead of rounded.
computeVatTruncated(subtotalMx) == (subtotalMx * VatPct) \div 100

computeVat(subtotalMx) == roundMx(subtotalMx * VatPct, 100)

\* The rental base as written in the copy of the engine kept in src/src/crm.js.
rentalBase45ftMx_crm(d) ==
  IF d = 7 THEN 15400
  ELSE IF d = 30 THEN 31500
  ELSE LET ratePerDay ==
             IF d >= 1 /\ d <= 3 THEN 2300
             ELSE IF d >= 4 /\ d <= 7 THEN 2200
             ELSE IF d >= 8 /\ d <= 14 THEN 1800
             ELSE IF d >= 15 /\ d <= 21 THEN 1500
             ELSE 1050
       IN roundMx(d * ratePerDay, 1)

\* The rental base of src/src/pricing_engine_v2.js, the module quote_service.js imports.
rentalBase45ftMx(d) ==
  IF d = 7 THEN 15400
  ELSE IF d = 30 THEN 31500
  ELSE LET ratePerDay ==
             IF d >= 1 /\ d <= 3 THEN 2300
             ELSE IF d >= 4 /\ d <= 6 THEN 2200
             ELSE IF d >= 7 /\ d <= 13 THEN 1900
             ELSE IF d >= 14 /\ d <= 29 THEN 1300
             ELSE 1050
       IN roundMx(d * ratePerDay, 1)

makeOption(days, transportMx) ==
  LET rentalBaseMx == rentalBase45ftMx(days)
      subtotalMx == roundMx(rentalBaseMx + transportMx, 1)
      vatMx == computeVat(subtotalMx)
      totalMx == roundMx(subtotalMx + vatMx, 1)
  IN [durationDays |-> days, rentalBaseMx |-> rentalBaseMx,
      transportMx |-> transportMx, subtotalMx |-> subtotalMx,
      vatMx |-> vatMx, totalMx |-> totalMx]

\* A faulty anchor list: the anchor equal to d is not skipped.
anchorRefsUnfiltered(d) == <<7, 30>>

\* The anchors 7 and 30 that differ from d, in that order.
anchorRefs(d) == SelectSeq(<<7, 30>>, LAMBDA refDays : refDays # d)

\* The day counts of the reference options: the anchors, then the 1-day fallback.
referenceDays(d) ==
  LET refs == anchorRefs(d)
      fallback == 1
  IN IF Len(refs) < 2 /\ fallback # d /\ ~(\E i \in 1..Len(refs) : refs[i] = fallback)
     THEN Append(refs, fallback)
     ELSE refs

\* computeComparativeOptions: [ok |-> FALSE] stands for the thrown Error.
computeComparativeOptions(durationDays, transportRoundTripMx) ==
  IF durationDays <= 0 THEN [ok |-> FALSE]
  ELSE LET transportMx == roundMx(transportRoundTripMx, 1)
           primary == makeOption(durationDays, transportMx)
           days == referenceDays(durationDays)
           refs == [i \in 1..Len(days) |-> makeOption(days[i], transportMx)]
           all == <<primary>> \o refs
       IN [ok |-> TRUE,
           options |-> SubSeq(all, 1, IF Len(all) < 3 THEN Len(all) ELSE 3),
           primary |-> primary,
           references |-> SubSeq(refs, 1, IF Len(refs) < 2 THEN Len(refs) ELSE 2)]

\* quote_service.js computeSingleOption: the primary of one engine call.
computeSingleOption(durationDays, transportRoundTripMx) ==
  computeComparativeOptions(durationDays, transportRoundTripMx).primary

\* quote_service.js buildOrderedOptions: requested first, then 1/7/30 without d.
buildOrderedOptions(requestedDays, transportRoundTripMx) ==
  LET req == computeSingleOption(requestedDays, transportRoundTripMx)
      refDays == SelectSeq(<<1, 7, 30>>, LAMBDA d : d # requestedDays)
      refs == [i \in 1..Len(refDays) |->
                 computeSingleOption(refDays[i], transportRoundTripMx)]
  IN <<req>> \o refs

----------------------------------------------------------------------------
(* The comparison table of the quote PDF: generateQuotePdfBuffer *)

\* effectivePerDay: the rental base per day, rounded to the whole peso.
effectivePerDay(opt) ==
  IF opt.durationDays = 0 THEN 0 ELSE roundMx(opt.rentalBaseMx, opt.durationDays)

\* The forEach over the options: bestIdx is the index kept so far (0 for none,
\* the code's -1), bestPerDay its price per day.
RECURSIVE bestFrom(_, _, _, _)
bestFrom(options, idx, bestIdx, bestPerDay) ==
  IF idx > Len(options) THEN bestIdx
  ELSE LET perDay == effectivePerDay(options[idx])
       IN IF perDay > 0 /\ (bestIdx = 0 \/ perDay < bestPerDay)
          THEN bestFrom(options, idx + 1, idx, perDay)
          ELSE bestFrom(options, idx + 1, bestIdx, bestPerDay)

\* A faulty comparison: an option that ties with the best so far replaces it.
bestIdxLastWins(options) ==
  LET n == Len(options)
      perDay(i) == effectivePerDay(options[i])
      positive == {i \in 1..n : perDay(i) > 0}
  IN IF positive = {} THEN 0
     ELSE CHOOSE b \in positive :
            \A i \in positive :
              perDay(b) < perDay(i) \/ (perDay(b) = perDay(i) /\ b >= i)

bestIdx(options) == bestFrom(options, 1, 0, 0)

\* The rows of the table that get the badge: at most four rows are drawn.
flaggedRows(options) ==
  {i \in 1..(IF Len(options) < 4 THEN Len(options) ELSE 4) : i = bestIdx(options)}

----------------------------------------------------------------------------
(* Qualification accumulator *)

QFields == {"heightMeters", "heightFeet", "liftType", "activity", "terrain",
            "city", "durationDays"}

\* getOrCreateQualification: the row created when none exists.
EmptyQualification ==
  [heightMeters |-> None, heightFeet |-> None, liftType |-> None,
   activity |-> None, terrain |-> None, city |-> None, durationDays |-> None]

\* The extracted key each column is patched from.
ExtractKey(f) ==
  CASE f = "heightMeters" -> "height_m"
    [] f = "heightFeet" -> "height_ft"
    [] f = "liftType" -> "type"
    [] f = "activity" -> "activity"
    [] f = "terrain" -> "terrain"
    [] f = "city" -> "city"
    [] f = "durationDays" -> "duration_days"

\* src/src/crm.js patchQualificationFromExtract: the keys of the sparse update
\* it builds. Numbers are kept when != null, strings when truthy; height_ft is
\* not read.
patchData(extracted) ==
  {f \in {"heightMeters", "durationDays"} : extracted[ExtractKey(f)] # None}
  \cup {f \in {"liftType", "activity", "terrain", "city"} :
          TruthyStr(extracted[ExtractKey(f)])}

\* A faulty patch: every key it reads is written, null and "" included.
patchUnguarded(row, extracted) ==
  [heightMeters |-> extracted.height_m,
   heightFeet |-> row.heightFeet,
   liftType |-> extracted.type,
   activity |-> extracted.activity,
   terrain |-> extracted.terrain,
   city |-> extracted.city,
   durationDays |-> extracted.duration_days]

\* A faulty patch: an extracted duration is added to the stored one.
patchAddsDuration(row, extracted) ==
  [heightMeters |-> IF extracted.height_m # None
                    THEN extracted.height_m ELSE row.heightMeters,
   heightFeet |-> row.heightFeet,
   liftType |-> IF TruthyStr(extracted.type)
                THEN extracted.type ELSE row.liftType,
   activity |-> IF TruthyStr(extracted.activity)
                THEN extracted.activity ELSE row.activity,
   terrain |-> IF TruthyStr(extracted.terrain)
               THEN extracted.terrain ELSE row.terrain,
   city |-> IF TruthyStr(extracted.city)
            THEN extracted.city ELSE row.city,
   durationDays |-> IF extracted.duration_days = None THEN row.durationDays
                    ELSE IF row.durationDays = None THEN extracted.duration_days
                    ELSE Some(Val(row.durationDays) + Val(extracted.duration_days))]

\* A faulty patch: only the columns still null are filled, an answer already
\* stored is never corrected.
patchFillsOnlyNull(row, extracted) ==
  [heightMeters |-> IF row.heightMeters = None /\ extracted.height_m # None
                    THEN extracted.height_m ELSE row.heightMeters,
   heightFeet |-> row.heightFeet,
   liftType |-> IF row.liftType = None /\ TruthyStr(extracted.type)
                THEN extracted.type ELSE row.liftType,
   activity |-> IF row.activity = None /\ TruthyStr(extracted.activity)
                THEN extracted.activity ELSE row.activity,
   terrain |-> IF row.terrain = None /\ TruthyStr(extracted.terrain)
               THEN extracted.terrain ELSE row.terrain,
   city |-> IF row.city = None /\ TruthyStr(extracted.city)
            THEN extracted.city ELSE row.city,
   durationDays |-> IF row.durationDays = None /\ extracted.duration_days # None
                    THEN extracted.duration_days ELSE row.durationDays]

\* src/src/crm.js patchQualificationFromExtract: the row after the call. With
\* an empty update nothing is written; otherwise prisma.qualification.update
\* writes the keys of the update and leaves the other columns.
patchQualificationFromExtract(row, extracted) ==
  IF patchData(extracted) = {} THEN row
  ELSE [heightMeters |-> IF extracted.height_m # None
                         THEN extracted.height_m ELSE row.heightMeters,
        heightFeet |-> row.heightFeet,
        liftType |-> IF TruthyStr(extracted.type)
                     THEN extracted.type ELSE row.liftType,
        activity |-> IF TruthyStr(extracted.activity)
                     THEN extracted.activity ELSE row.activity,
        terrain |-> IF TruthyStr(extracted.terrain)
                    THEN extracted.terrain ELSE row.terrain,
        city |-> IF TruthyStr(extracted.city)
                 THEN extracted.city ELSE row.city,
        durationDays |-> IF extracted.duration_days # None
                         THEN extracted.duration_days ELSE row.durationDays]

\* cleanStr of the revision that normalises strings: null, or the trimmed
\* string when it is not empty.
cleanStr(v) ==
  IF v = None THEN None
  ELSE LET s == Trim(Val(v)) IN IF Len(s) > 0 THEN Some(s) ELSE None

\* The keys of the sparse update of the cleanStr revision.
patchDataClean(extracted) ==
  {f \in {"heightMeters", "heightFeet", "durationDays"} :
     extracted[ExtractKey(f)] # None}
  \cup {f \in {"liftType", "activity", "terrain", "city"} :
          cleanStr(extracted[ExtractKey(f)]) # None}

\* patchQualificationFromExtract of the cleanStr revision: the row after the call.
patchQualificationFromExtractClean(row, extracted) ==
  IF patchDataClean(extracted) = {} THEN row
  ELSE [heightMeters |-> IF extracted.height_m # None
                         THEN extracted.height_m ELSE row.heightMeters,
        heightFeet |-> IF extracted.height_ft # None
                       THEN extracted.height_ft ELSE row.heightFeet,
        liftType |-> IF cleanStr(extracted.type) # None
                     THEN cleanStr(extracted.type) ELSE row.liftType,
        activity |-> IF cleanStr(extracted.activity) # None
                     THEN cleanStr(extracted.activity) ELSE row.activity,
        terrain |-> IF cleanStr(extracted.terrain) # None
                    THEN cleanStr(extracted.terrain) ELSE row.terrain,
        city |-> IF cleanStr(extracted.city) # None
                 THEN cleanStr(extracted.city) ELSE row.city,
        durationDays |-> IF extracted.duration_days # None
                         THEN extracted.duration_days ELSE row.durationDays]

----------------------------------------------------------------------------
(* Strings and numbers the extractor can return *)

Str(a) == <<a>>

BRAZO == Str("BRAZO")
TIJERA == Str("TIJERA")
PINTURA == Str("PINTURA")
GENERAL == Str("GENERAL")
PISO_FIRME == Str("PISO_FIRME")
TERRACERIA == Str("TERRACERIA")
EmptyString == <<>>
Blank == <<WS>>

\* JSON.parse of an answer in which every field is null.
NullExtraction ==
  [name |-> None, email |-> None, height_m |-> None, height_ft |-> None,
   type |-> None, activity |-> None, terrain |-> None, city |-> None,
   duration_days |-> None]

\* The parsed answer: the extracted fields and the extractor's missing list.
MkExt(fields, missing) ==
  [name |-> fields.name, email |-> fields.email, height_m |-> fields.height_m,
   height_ft |-> fields.height_ft, type |-> fields.type,
   activity |-> fields.activity, terrain |-> fields.terrain,
   city |-> fields.city, duration_days |-> fields.duration_days,
   missing |-> missing]

----------------------------------------------------------------------------
(* Specification of the patch alone: a stored row, one extraction, the      *)
(* patch applied to it twice in succession.                                 *)

\* A faulty call: the update is issued also when its data is empty.
patchCallOutcomeUpdatesAlways(row, extracted) ==
  [ret |-> Some(patchQualificationFromExtract(row, extracted)), wrote |-> TRUE]

\* What a call of patchQualificationFromExtract does besides the new row: it
\* returns null without a query when the data is empty, and the row given back
\* by prisma.qualification.update otherwise.
patchCallOutcome(row, extracted) ==
  IF patchData(extracted) = {}
  THEN [ret |-> None, wrote |-> FALSE]
  ELSE [ret |-> Some(patchQualificationFromExtract(row, extracted)), wrote |-> TRUE]

StoredRows ==
  { [heightMeters |-> h, heightFeet |-> None, liftType |-> ty, activity |-> a,
     terrain |-> te, city |-> c, durationDays |-> d] :
      h \in {None, Some(10)}, ty \in {None, Some(TIJERA)},
      a \in {None, Some(PINTURA)}, te \in {None, Some(TERRACERIA)},
      c \in {None, Some(Str("Monterrey"))}, d \in {None, Some(7)} }

PatchExtractions ==
  { [name |-> None, email |-> None, height_m |-> h, height_ft |-> hf,
     type |-> ty, activity |-> a, terrain |-> te, city |-> c,
     duration_days |-> d] :
      h \in {None, Some(0), Some(14)}, hf \in {None, Some(46)},
      ty \in {None, Some(EmptyString), Some(BRAZO)},
      a \in {None, Some(GENERAL)}, te \in {None, Some(PISO_FIRME)},
      c \in {None, Some(EmptyString), Some(Blank), Some(Str("Saltillo")),
             Some(<<WS, "Arteaga", WS>>)},
      d \in {None, Some(0), Some(5)} }

MainIdle ==
  /\ lead = None
  /\ convo = None
  /\ qualification = None
  /\ quotes = <<>>
  /\ turn = None

PatchIdle ==
  /\ p_q0 = None
  /\ p_ext = None
  /\ p_q = None
  /\ p_qc = None
  /\ p_pc = 0
  /\ p_ret = None
  /\ p_writes = 0

PricingIdle ==
  /\ pr_d = 0
  /\ pr_t = 0
  /\ pr_res = None
  /\ pr_crm = None
  /\ pr_lines = None
  /\ pr_best = {}
  /\ pr_pc = "idle"

ConcIdle ==
  /\ c_row0 = None
  /\ c_row = None
  /\ c_ext = <<>>
  /\ c_data = <<>>
  /\ c_pc = <<>>
  /\ c_order = <<>>

ValidateIdle ==
  /\ v_duration = None
  /\ v_model = None
  /\ v_threw = FALSE
  /\ v_pc = "idle"

QualIdle ==
  /\ g_rows = <<>>
  /\ g_seen = <<>>
  /\ g_ret = <<>>
  /\ g_pc = <<>>
  /\ g_msgs = <<>>

RaceIdle ==
  /\ r_convo = None
  /\ r_quotes = <<>>
  /\ r_snap = <<>>
  /\ r_count = <<>>
  /\ r_pc = <<>>

AuxIdle == QualIdle /\ RaceIdle

InitPatch ==
  /\ p_q0 \in StoredRows
  /\ p_ext \in PatchExtractions
  /\ p_q = p_q0
  /\ p_qc = p_q0
  /\ p_pc = 0
  /\ p_ret = None
  /\ p_writes = 0
  /\ MainIdle
  /\ PricingIdle
  /\ ValidateIdle
  /\ ConcIdle
  /\ AuxIdle

\* One call of patchQualificationFromExtract(leadId, extracted) on the row, under
\* each of the two revisions of the function.
PatchCall ==
  /\ p_ext # None
  /\ p_pc < 2
  /\ p_q' = patchQualificationFromExtract(p_q, p_ext)
  /\ p_qc' = patchQualificationFromExtractClean(p_qc, p_ext)
  /\ p_pc' = p_pc + 1
  /\ \E res \in {patchCallOutcome(p_q, p_ext)} :
       /\ p_ret' = res.ret
       /\ p_writes' = IF res.wrote THEN p_writes + 1 ELSE p_writes
  /\ UNCHANGED <<p_q0, p_ext>>
  /\ UNCHANGED mainVars
  /\ UNCHANGED pricingVars
  /\ UNCHANGED validateVars
  /\ UNCHANGED concVars
  /\ UNCHANGED auxVars

NextPatch == PatchCall

SpecPatch == InitPatch /\ [][NextPatch]_vars

----------------------------------------------------------------------------
(* Specification of the pricing engine alone: one call per requested        *)
(* duration and transport amount.                                           *)

MaxDays == 35

Durations == {-1} \cup (0..MaxDays)

\* The transport amounts of a call: those resolveTransportByCity can return,
\* and 600 and 605, amounts a caller of the engine may pass; with 605 the VAT
\* has a fraction of a peso to round.
Transports == {0, 600, 605, 2500, 3000, 4500}

InitPricing ==
  /\ pr_d \in Durations
  /\ pr_t \in Transports
  /\ pr_res = None
  /\ pr_crm = None
  /\ pr_lines = None
  /\ pr_best = {}
  /\ pr_pc = "in"
  /\ MainIdle
  /\ PatchIdle
  /\ ValidateIdle
  /\ ConcIdle
  /\ AuxIdle

\* computeComparativeOptions({durationDays, transportRoundTripMx}) and, for a
\* duration createDraftQuoteWithPdf accepts, buildOrderedOptions and the rows
\* generateQuotePdfBuffer flags in the table of these options.
PricingCall ==
  /\ pr_pc = "in"
  /\ pr_res' = Some(computeComparativeOptions(pr_d, pr_t))
  /\ pr_crm' = IF pr_d <= 0 THEN None ELSE Some(rentalBase45ftMx_crm(pr_d))
  /\ pr_lines' = IF pr_d <= 0 THEN None ELSE Some(buildOrderedOptions(pr_d, pr_t))
  /\ pr_best' = IF pr_d <= 0 THEN {}
                ELSE flaggedRows(buildOrderedOptions(pr_d, pr_t))
  /\ pr_pc' = "out"
  /\ UNCHANGED <<pr_d, pr_t>>
  /\ UNCHANGED mainVars
  /\ UNCHANGED patchVars
  /\ UNCHANGED validateVars
  /\ UNCHANGED concVars
  /\ UNCHANGED auxVars

NextPricing == PricingCall

SpecPricing == InitPricing /\ [][NextPricing]_vars

----------------------------------------------------------------------------
(* Specification of the input check of the pricing engine: one call per     *)
(* durationDays and equipmentModel, of any kind a caller can pass.          *)

MaxHalfDays == 12

\* The numbers given as durationDays: kind "number" is the finite number
\* twice / 2 (whole when twice is even), "NaN" and "Infinity" are not finite.
DurationInputs ==
  {[kind |-> "number", twice |-> k] : k \in (-2)..MaxHalfDays}
  \cup {[kind |-> "NaN", twice |-> 0], [kind |-> "Infinity", twice |-> 0]}

\* The values given as equipmentModel; None is undefined.
EquipmentModels ==
  {None, Some(""), Some("45FT"), Some("45ft"), Some("45"), Some("45_PIES"),
   Some("JLG45"), Some("60FT")}

\* String(equipmentModel || "45FT").toUpperCase()
normalizedModel(equipmentModel) ==
  LET given == IF equipmentModel = None \/ equipmentModel = Some("")
               THEN "45FT" ELSE Val(equipmentModel)
  IN IF given = "45ft" THEN "45FT" ELSE given

\* !Number.isFinite(d) || d <= 0
durationRejected(duration) ==
  duration.kind # "number" \/ duration.twice <= 0

\* The equipment routing of computeComparativeOptions.
equipmentRejected(equipmentModel) ==
  normalizedModel(equipmentModel) \notin {"45FT", "45", "45_PIES", "JLG45"}

\* Whether computeComparativeOptions throws on its input.
pricingCallThrows(duration, equipmentModel) ==
  durationRejected(duration) \/ equipmentRejected(equipmentModel)

InitValidate ==
  /\ v_duration \in {Some(d) : d \in DurationInputs}
  /\ v_model \in EquipmentModels
  /\ v_threw = FALSE
  /\ v_pc = "in"
  /\ MainIdle
  /\ PatchIdle
  /\ PricingIdle
  /\ ConcIdle
  /\ AuxIdle

\* computeComparativeOptions({durationDays, equipmentModel}): thrown or returned.
ValidateCall ==
  /\ v_pc = "in"
  /\ v_threw' = pricingCallThrows(Val(v_duration), v_model)
  /\ v_pc' = "out"
  /\ UNCHANGED <<v_duration, v_model>>
  /\ UNCHANGED mainVars
  /\ UNCHANGED patchVars
  /\ UNCHANGED pricingVars
  /\ UNCHANGED concVars
  /\ UNCHANGED auxVars

NextValidate == ValidateCall

SpecValidate == InitValidate /\ [][NextValidate]_vars

----------------------------------------------------------------------------
(* Specification of two handlers that patch the qualification of one lead    *)
(* concurrently. Each builds its sparse update from its own extraction, then *)
(* issues one prisma.qualification.update; the two interleave freely.        *)

Procs == {1, 2}

\* The sparse update patchQualificationFromExtract builds: None for a key it
\* leaves out, the value for a key it sets.
patchUpdateData(extracted) ==
  [heightMeters |-> extracted.height_m,
   heightFeet |-> None,
   liftType |-> IF TruthyStr(extracted.type) THEN extracted.type ELSE None,
   activity |-> IF TruthyStr(extracted.activity) THEN extracted.activity ELSE None,
   terrain |-> IF TruthyStr(extracted.terrain) THEN extracted.terrain ELSE None,
   city |-> IF TruthyStr(extracted.city) THEN extracted.city ELSE None,
   durationDays |-> extracted.duration_days]

\* A faulty update: the columns the update leaves out are written as null.
qualificationUpdateWholeRow(row, data) == data

\* prisma.qualification.update({ where: { leadId }, data }): the columns named
\* in data are written, the others are left.
qualificationUpdate(row, data) ==
  [heightMeters |-> IF data.heightMeters # None
                    THEN data.heightMeters ELSE row.heightMeters,
   heightFeet |-> IF data.heightFeet # None
                  THEN data.heightFeet ELSE row.heightFeet,
   liftType |-> IF data.liftType # None THEN data.liftType ELSE row.liftType,
   activity |-> IF data.activity # None THEN data.activity ELSE row.activity,
   terrain |-> IF data.terrain # None THEN data.terrain ELSE row.terrain,
   city |-> IF data.city # None THEN data.city ELSE row.city,
   durationDays |-> IF data.durationDays # None
                    THEN data.durationDays ELSE row.durationDays]

\* The rows stored before the two messages.
ConcStoredRows ==
  { [EmptyQualification EXCEPT !.heightMeters = h, !.city = c, !.terrain = te] :
      h \in {None, Some(10)}, c \in {None, Some(Str("Monterrey"))},
      te \in {None, Some(TERRACERIA)} }

\* The extractions of the two messages; each handler has values of its own.
ConcExtractions(p) ==
  { [NullExtraction EXCEPT !.height_m = h, !.type = ty, !.city = c,
                           !.duration_days = d] :
      h \in {None, Some(IF p = 1 THEN 14 ELSE 20)},
      ty \in {None, Some(IF p = 1 THEN BRAZO ELSE TIJERA)},
      c \in {None, Some(EmptyString),
             Some(Str(IF p = 1 THEN "Saltillo" ELSE "Arteaga"))},
      d \in {None, Some(IF p = 1 THEN 5 ELSE 7)} }

InitConc ==
  /\ c_row0 \in {Some(r) : r \in ConcStoredRows}
  /\ c_row = c_row0
  /\ c_ext \in {<<e1, e2>> : e1 \in ConcExtractions(1), e2 \in ConcExtractions(2)}
  /\ c_data = <<None, None>>
  /\ c_pc = <<"build", "build">>
  /\ c_order = <<>>
  /\ MainIdle
  /\ PatchIdle
  /\ PricingIdle
  /\ ValidateIdle
  /\ AuxIdle

\* Handler p builds the data of its update from its extraction.
BuildUpdate(p) ==
  /\ c_pc[p] = "build"
  /\ c_data' = [c_data EXCEPT ![p] = Some(patchUpdateData(c_ext[p]))]
  /\ c_pc' = [c_pc EXCEPT ![p] = "write"]
  /\ UNCHANGED <<c_row0, c_row, c_ext, c_order>>
  /\ UNCHANGED mainVars
  /\ UNCHANGED patchVars
  /\ UNCHANGED pricingVars
  /\ UNCHANGED validateVars
  /\ UNCHANGED auxVars

\* Handler p issues its update, unless the data is empty (it returns null).
WriteUpdate(p) ==
  /\ c_pc[p] = "write"
  /\ c_row' = IF patchData(c_ext[p]) = {} THEN c_row
              ELSE Some(qualificationUpdate(Val(c_row), Val(c_data[p])))
  /\ c_pc' = [c_pc EXCEPT ![p] = "done"]
  /\ c_order' = Append(c_order, p)
  /\ UNCHANGED <<c_row0, c_ext, c_data>>
  /\ UNCHANGED mainVars
  /\ UNCHANGED patchVars
  /\ UNCHANGED pricingVars
  /\ UNCHANGED validateVars
  /\ UNCHANGED auxVars

NextConc == \E p \in Procs : BuildUpdate(p) \/ WriteUpdate(p)

SpecConc == InitConc /\ [][NextConc]_vars

----------------------------------------------------------------------------
(* Specification of two handlers of one lead that ensure the lead's          *)
(* Qualification row exists (step 2 of the handler) and then patch it. The   *)
(* read and the create of getOrCreateQualification are separate queries, so  *)
(* the handlers interleave between them.                                     *)

MaxMessages == 2

\* prisma.qualification.findUnique({ where: { leadId } }).
findQualification(rows) == IF rows = <<>> THEN None ELSE Some(rows[1])

\* A faulty creation: a row that exists is written again with every field null.
getOrCreateQualificationResets(existing, rows) ==
  IF rows # <<>> /\ existing = None
  THEN [rows |-> rows, ret |-> None, threw |-> TRUE]
  ELSE [rows |-> <<EmptyQualification>>, ret |-> Some(EmptyQualification),
        threw |-> FALSE]

\* getOrCreateQualification after its read: the row found is returned as it
\* is; otherwise a row is created with no field set. leadId is the unique key
\* findUnique looks the row up by, so a create for a lead that has got a row in
\* the meantime is refused by the store and the call throws.
getOrCreateQualification(existing, rows) ==
  IF existing # None
  THEN [rows |-> rows, ret |-> existing, threw |-> FALSE]
  ELSE IF rows # <<>>
  THEN [rows |-> rows, ret |-> None, threw |-> TRUE]
  ELSE [rows |-> <<EmptyQualification>>, ret |-> Some(EmptyQualification),
        threw |-> FALSE]

\* What the extractor gives the handler to patch with: nothing, or a height.
QualExtractions(p) ==
  {NullExtraction,
   [NullExtraction EXCEPT !.height_m = Some(IF p = 1 THEN 14 ELSE 20)]}

InitQual ==
  /\ g_rows = <<>>
  /\ g_seen = <<None, None>>
  /\ g_ret = <<None, None>>
  /\ g_pc = <<"idle", "idle">>
  /\ g_msgs = <<0, 0>>
  /\ MainIdle
  /\ PatchIdle
  /\ PricingIdle
  /\ ValidateIdle
  /\ ConcIdle
  /\ RaceIdle

\* Handler p takes its next message.
TakeMessage(p) ==
  /\ g_pc[p] \in {"idle", "threw"}
  /\ g_msgs[p] < MaxMessages
  /\ g_msgs' = [g_msgs EXCEPT ![p] = @ + 1]
  /\ g_pc' = [g_pc EXCEPT ![p] = "find"]
  /\ g_seen' = [g_seen EXCEPT ![p] = None]
  /\ g_ret' = [g_ret EXCEPT ![p] = None]
  /\ UNCHANGED g_rows
  /\ UNCHANGED <<mainVars, patchVars, pricingVars, validateVars, concVars, raceVars>>

\* The read of getOrCreateQualification.
FindQualification(p) ==
  /\ g_pc[p] = "find"
  /\ g_seen' = [g_seen EXCEPT ![p] = findQualification(g_rows)]
  /\ g_pc' = [g_pc EXCEPT ![p] = "create"]
  /\ UNCHANGED <<g_rows, g_ret, g_msgs>>
  /\ UNCHANGED <<mainVars, patchVars, pricingVars, validateVars, concVars, raceVars>>

\* The rest of getOrCreateQualification; a throw ends the turn in the
\* handler's catch.
ReturnOrCreate(p) ==
  /\ g_pc[p] = "create"
  /\ \E res \in {getOrCreateQualification(g_seen[p], g_rows)} :
       /\ g_rows' = res.rows
       /\ g_ret' = [g_ret EXCEPT ![p] = res.ret]
       /\ g_pc' = [g_pc EXCEPT ![p] = IF res.threw THEN "threw" ELSE "patch"]
  /\ UNCHANGED <<g_seen, g_msgs>>
  /\ UNCHANGED <<mainVars, patchVars, pricingVars, validateVars, concVars, raceVars>>

\* Step 4 of the handler: the extracted fields are patched into the row.
PatchStored(p) ==
  /\ g_pc[p] = "patch"
  /\ \E ext \in QualExtractions(p) :
       g_rows' = IF patchData(ext) = {} THEN g_rows
                 ELSE <<qualificationUpdate(g_rows[1], patchUpdateData(ext))>>
  /\ g_pc' = [g_pc EXCEPT ![p] = "idle"]
  /\ UNCHANGED <<g_seen, g_ret, g_msgs>>
  /\ UNCHANGED <<mainVars, patchVars, pricingVars, validateVars, concVars, raceVars>>

NextQual ==
  \E p \in Procs :
    \/ TakeMessage(p)
    \/ FindQualification(p)
    \/ ReturnOrCreate(p)
    \/ PatchStored(p)

SpecQual == InitQual /\ [][NextQual]_vars

----------------------------------------------------------------------------
(* The webhook handler: app.post("/webhooks/whatsapp") *)

\* The regular expression /^[^\s@]+@[^\s@]+\.[^\s@]+$/ on a string of atoms: one
\* run of non-whitespace characters of the shape local@domain.tld.
EmailAtoms == {"a@b.c", "A@B.C"}
IsEmail(candidate) == Len(candidate) = 1 /\ candidate[1] \in EmailAtoms

\* resolveTransportByCity: the round-trip transport amount of a city.
resolveTransportByCity(cityRaw) ==
  LET city == ToLowerCase(IF TruthyStr(cityRaw) THEN Val(cityRaw) ELSE <<>>)
  IN CASE Includes(city, <<"ramos">>) -> 2500
       [] Includes(city, <<"saltillo">>) -> 2500
       [] Includes(city, <<"arteaga">>) -> 3000
       [] Includes(city, <<"derrama">>) -> 4500
       [] Includes(city, <<"santa", WS, "catarina">>) -> 4500
       [] Includes(city, <<"apodaca">>) -> 4500
       [] OTHER -> 0

\* A faulty order: the city is pushed before the technical fields.
AskOrderCityFirst == <<"city", "height_m", "type", "activity", "terrain",
                       "duration_days", "email">>

\* The order in which the handler pushes the unmet fields.
AskOrder == <<"height_m", "type", "activity", "terrain", "city", "duration_days",
              "email">>

\* Step 5 of the handler: the fields still missing, from the stored row q and
\* the lead's email.
missingFields(q, email) ==
  LET unmet(k) ==
        CASE k = "height_m" -> q.heightMeters = None
          [] k = "type" -> ~TruthyStr(q.liftType)
          [] k = "activity" -> ~TruthyStr(q.activity)
          [] k = "terrain" -> ~TruthyStr(q.terrain) \/ Trim(Val(q.terrain)) = <<>>
          [] k = "city" -> ~TruthyStr(q.city) \/ Trim(Val(q.city)) = <<>>
          [] k = "duration_days" -> q.durationDays = None
          [] k = "email" -> ~TruthyStr(email)
  IN SelectSeq(AskOrder, unmet)

SeqIncludes(seq, x) == \E i \in 1..Len(seq) : seq[i] = x

\* The retry flag: the extractor reports the next field missing and the text
\* is not blank.
invalidFieldOf(extracted, missing, text) ==
  IF /\ extracted # None
     /\ Len(Val(extracted).missing) > 0
     /\ Len(missing) > 0
     /\ SeqIncludes(Val(extracted).missing, missing[1])
     /\ Len(Trim(text)) > 0
  THEN Some(missing[1])
  ELSE None

\* buildNextQuestion: the reply as <<kind, field>>.
buildNextQuestion(leadName, missing, invalidField, invalidEmailAttempt) ==
  IF ~TruthyStr(leadName) THEN <<"ask", "name">>
  ELSE IF Len(missing) = 0 THEN <<"ready", "">>
  ELSE LET next == missing[1]
           isRetry == invalidField = Some(next)
       IN IF next = "email"
          THEN IF invalidEmailAttempt THEN <<"retry", next>> ELSE <<"ask", next>>
          ELSE IF isRetry THEN <<"retry", next>> ELSE <<"ask", next>>

\* The state the handler persists after createDraftQuoteWithPdf returned.
StateAfterQuote == "READY_FOR_MATCH"

\* A faulty numbering: the count is not used.
nextQuoteNumberFixed(existing) == 1

\* nextQuoteNumber: the sequence part of Q-<year>-<seq>, count + 1.
nextQuoteNumber(existing) == Len(existing) + 1

\* A faulty insertion: the header totals are taken from the last option.
quoteRowHeaderFromLast(quoteNumber, q, transportRoundTripMx, options) ==
  [quoteNumber |-> quoteNumber,
   status |-> "DRAFT",
   transportRoundTripMx |-> transportRoundTripMx,
   subtotalMx |-> options[Len(options)].subtotalMx,
   vatMx |-> options[Len(options)].vatMx,
   totalMx |-> options[Len(options)].totalMx,
   meta |-> q,
   items |-> [i \in 1..Len(options) |->
                [lineNo |-> i,
                 durationDays |-> options[i].durationDays,
                 unitPriceMx |-> IF options[i].durationDays > 0
                                 THEN roundMx(options[i].rentalBaseMx,
                                              options[i].durationDays)
                                 ELSE 0,
                 amountMx |-> options[i].totalMx]]]

\* prisma.quote.create of createDraftQuoteWithPdf: the Quote row and its items.
quoteRow(quoteNumber, q, transportRoundTripMx, options) ==
  [quoteNumber |-> quoteNumber,
   status |-> "DRAFT",
   transportRoundTripMx |-> transportRoundTripMx,
   subtotalMx |-> options[1].subtotalMx,
   vatMx |-> options[1].vatMx,
   totalMx |-> options[1].totalMx,
   meta |-> q,
   items |-> [i \in 1..Len(options) |->
                [lineNo |-> i,
                 durationDays |-> options[i].durationDays,
                 unitPriceMx |-> IF options[i].durationDays > 0
                                 THEN roundMx(options[i].rentalBaseMx,
                                              options[i].durationDays)
                                 ELSE 0,
                 amountMx |-> options[i].totalMx]]]

\* The step note of createDraftQuoteWithPdf: the day count d + 1 or d + 2 the
\* terms of the PDF recommend when it lowers the total by at least 800 pesos
\* or 3 per cent, None when there is no such note.
optimizedNote(d, transportRoundTripMx, requestedTotal) ==
  IF requestedTotal <= 0 THEN None
  ELSE LET candTotal(k) == computeSingleOption(d + k, transportRoundTripMx).totalMx
           lower(k) == candTotal(k) # 0 /\ candTotal(k) < requestedTotal
           best == IF lower(1) /\ lower(2)
                   THEN (IF candTotal(2) < candTotal(1) THEN 2 ELSE 1)
                   ELSE IF lower(1) THEN 1
                   ELSE IF lower(2) THEN 2
                   ELSE 0
           savingsMx == requestedTotal - candTotal(best)
       IN IF best # 0 /\ (savingsMx >= 800 \/ savingsMx * 100 >= 3 * requestedTotal)
          THEN Some(d + best)
          ELSE None

\* A faulty catch: the failed turn still sends the acknowledgment.
ReplyAfterFailure == <<"ack", "">>

NoReply == <<"none", "">>

\* Faulty steps 1 to 4: when the extractor failed the row is written with
\* all fields null.
persistExtractedResetsOnFailure(leadRow, qualRow, extracted) ==
  LET lead0 == IF leadRow = None THEN [name |-> None, email |-> None]
               ELSE Val(leadRow)
      qual0 == IF qualRow = None THEN EmptyQualification ELSE Val(qualRow)
  IN IF extracted = None
     THEN [name |-> lead0.name, email |-> lead0.email,
           invalidEmailAttempt |-> FALSE, q |-> EmptyQualification]
     ELSE [name |-> IF ~TruthyStr(lead0.name) /\ TruthyStr(Val(extracted).name)
                    THEN Val(extracted).name ELSE lead0.name,
           email |-> lead0.email,
           invalidEmailAttempt |-> FALSE,
           q |-> patchQualificationFromExtract(qual0, Val(extracted))]

\* Faulty steps 1 to 4: the lead's name is written from every extraction, also
\* from one that carries no name.
persistExtractedOverwritesName(leadRow, qualRow, extracted) ==
  LET lead0 == IF leadRow = None THEN [name |-> None, email |-> None]
               ELSE Val(leadRow)
      qual0 == IF qualRow = None THEN EmptyQualification ELSE Val(qualRow)
  IN IF extracted = None
     THEN [name |-> lead0.name, email |-> lead0.email,
           invalidEmailAttempt |-> FALSE, q |-> qual0]
     ELSE [name |-> Val(extracted).name,
           email |-> lead0.email,
           invalidEmailAttempt |-> FALSE,
           q |-> patchQualificationFromExtract(qual0, Val(extracted))]

\* Steps 1 to 4 of the handler: upsertLead, getOrCreateQualification, then
\* the extracted name, email and qualification fields are persisted. Returns
\* the lead's name and email and the stored row q as they are afterwards.
\* setLeadEmail(lead.id, candidate) is taken at its call: it stores the
\* candidate on the Lead row, as setLeadName stores the name.
persistExtracted(leadRow, qualRow, extracted) ==
  LET lead0 == IF leadRow = None THEN [name |-> None, email |-> None]
               ELSE Val(leadRow)
      qual0 == IF qualRow = None THEN EmptyQualification ELSE Val(qualRow)
      ext == IF extracted = None THEN MkExt(NullExtraction, <<>>)
             ELSE Val(extracted)
      emailTried == ~TruthyStr(lead0.email) /\ TruthyStr(ext.email)
      candidate == IF emailTried THEN ToLowerCase(Trim(Val(ext.email))) ELSE <<>>
  IN [name |-> IF ~TruthyStr(lead0.name) /\ TruthyStr(ext.name)
               THEN ext.name ELSE lead0.name,
      email |-> IF emailTried /\ IsEmail(candidate)
                THEN Some(candidate) ELSE lead0.email,
      invalidEmailAttempt |-> emailTried /\ ~IsEmail(candidate),
      q |-> IF extracted # None
            THEN patchQualificationFromExtract(qual0, ext) ELSE qual0]

\* upsertLead of the quote service, for a lead that exists: the name given by
\* the handler is stored, the stored name is kept when none is given.
upsertLeadForQuote(leadName, existingName) ==
  IF TruthyStr(leadName) THEN leadName ELSE existingName

\* The handler for one inbound message: text is msg.text.body, extracted the
\* extractor's answer (None when extractLeadFields threw). Once the quote is
\* inserted generateQuotePdfBuffer either returns (pdfOk) or throws; an
\* exception ends the turn in the handler's catch, with no reply.
WebhookPost(text, extracted) ==
  \E st \in {persistExtracted(lead, qualification, extracted)} :
  \E missing \in {missingFields(st.q, st.email)} :
  LET convo0 == IF convo = None THEN [state |-> "INIT"] ELSE Val(convo)
      q == st.q
      ready == Len(missing) = 0
      draft == ready /\ convo0.state # "QUOTE_DRAFTED"
      durationDays == Val(q.durationDays)
      transportRoundTripMx == resolveTransportByCity(q.city)
      rejected == draft /\ durationDays <= 0
      inserted == draft /\ ~rejected
  IN \E pdfOk \in (IF inserted THEN BOOLEAN ELSE {TRUE}) :
     LET completed == inserted /\ pdfOk IN
     /\ lead' = Some([name |-> IF draft /\ ~rejected
                                THEN upsertLeadForQuote(
                                       IF TruthyStr(st.name) THEN st.name ELSE None,
                                       st.name)
                                ELSE st.name,
                      email |-> st.email])
     /\ qualification' = Some(q)
     /\ quotes' = IF inserted
                  THEN Append(quotes,
                              quoteRow(nextQuoteNumber(quotes), q,
                                       transportRoundTripMx,
                                       buildOrderedOptions(durationDays,
                                                           transportRoundTripMx)))
                  ELSE quotes
     /\ convo' = IF ~ready THEN Some([state |-> "TECH_QUALIFICATION"])
                 ELSE IF completed THEN Some([state |-> StateAfterQuote])
                 ELSE Some(convo0)
     /\ turn' = Some([outcome |-> IF ~ready THEN "question"
                                  ELSE IF ~draft THEN "ack"
                                  ELSE IF completed THEN "quote"
                                  ELSE "error",
                      reply |-> IF ~ready
                                THEN buildNextQuestion(
                                       st.name, missing,
                                       invalidFieldOf(extracted, missing, text),
                                       st.invalidEmailAttempt)
                                ELSE IF ~draft THEN <<"ack", "">>
                                ELSE IF completed THEN <<"quote", "">>
                                ELSE NoReply,
                      createdQuote |-> inserted,
                      note |-> IF completed
                               THEN optimizedNote(
                                      durationDays, transportRoundTripMx,
                                      computeSingleOption(
                                        durationDays, transportRoundTripMx).totalMx)
                               ELSE None,
                      extractorFailed |-> extracted = None,
                      inbound |-> IF ~ready
                                  THEN Some([text |-> text,
                                             missing |-> IF extracted = None
                                                         THEN None
                                                         ELSE Some(Val(extracted).missing)])
                                  ELSE None])
     /\ UNCHANGED patchVars
     /\ UNCHANGED pricingVars
     /\ UNCHANGED validateVars
     /\ UNCHANGED concVars
     /\ UNCHANGED auxVars

\* A POST whose body carries no message: the handler returns at once.
PostWithoutMessage ==
  /\ turn' = Some([outcome |-> "ignored", reply |-> NoReply,
                   createdQuote |-> FALSE, note |-> None,
                   extractorFailed |-> FALSE, inbound |-> None])
  /\ UNCHANGED <<lead, convo, qualification, quotes>>
  /\ UNCHANGED patchVars
  /\ UNCHANGED pricingVars
  /\ UNCHANGED validateVars
  /\ UNCHANGED concVars
  /\ UNCHANGED auxVars

----------------------------------------------------------------------------
(* Specification of two handlers of one lead whose qualification is complete *)
(* (nothing is missing), from the read of the conversation to the write of  *)
(* its state. Every await of the handler and of createDraftQuoteWithPdf is a *)
(* point where the other handler may run.                                    *)

\* The stored states a complete lead's conversation can be read in, with the
\* number of Quote rows that go with each.
RaceStores ==
  { [state |-> "INIT", quoted |-> 0],
    [state |-> "TECH_QUALIFICATION", quoted |-> 0],
    [state |-> "READY_FOR_MATCH", quoted |-> 1],
    [state |-> "QUOTE_DRAFTED", quoted |-> 1] }

\* prisma.quote.create: the row is appended; the store is taken to accept a
\* quoteNumber that another Quote of the company already carries.
quoteInsert(rows, row) == Append(rows, row)

InitRace ==
  /\ \E st \in RaceStores :
       /\ r_convo = Some([state |-> st.state])
       /\ r_quotes = [i \in 1..st.quoted |-> [by |-> 0, quoteNumber |-> i]]
  /\ r_snap = <<None, None>>
  /\ r_count = <<None, None>>
  /\ r_pc = <<"start", "start">>
  /\ MainIdle
  /\ PatchIdle
  /\ PricingIdle
  /\ ValidateIdle
  /\ ConcIdle
  /\ QualIdle

\* getOrCreateConversation: the handler reads the conversation row.
ReadConversation(p) ==
  /\ r_pc[p] = "start"
  /\ r_snap' = [r_snap EXCEPT ![p] = r_convo]
  /\ r_pc' = [r_pc EXCEPT ![p] = "guard"]
  /\ UNCHANGED <<r_convo, r_quotes, r_count>>
  /\ UNCHANGED <<mainVars, patchVars, pricingVars, validateVars, concVars, qualVars>>

\* The guard of step 6.1, on the row read at the start of the handler: the
\* acknowledgment when it says QUOTE_DRAFTED, createDraftQuoteWithPdf otherwise.
EvaluateGuard(p) ==
  /\ r_pc[p] = "guard"
  /\ r_pc' = [r_pc EXCEPT ![p] = IF Val(r_snap[p]).state # "QUOTE_DRAFTED"
                                 THEN "count" ELSE "acked"]
  /\ UNCHANGED <<r_convo, r_quotes, r_snap, r_count>>
  /\ UNCHANGED <<mainVars, patchVars, pricingVars, validateVars, concVars, qualVars>>

\* nextQuoteNumber: the Quote rows are counted and the number is formed.
CountQuotes(p) ==
  /\ r_pc[p] = "count"
  /\ r_count' = [r_count EXCEPT ![p] = Some([counted |-> Len(r_quotes),
                                             quoteNumber |-> nextQuoteNumber(r_quotes)])]
  /\ r_pc' = [r_pc EXCEPT ![p] = "insert"]
  /\ UNCHANGED <<r_convo, r_quotes, r_snap>>
  /\ UNCHANGED <<mainVars, patchVars, pricingVars, validateVars, concVars, qualVars>>

\* prisma.quote.create with the number formed before.
InsertQuote(p) ==
  /\ r_pc[p] = "insert"
  /\ r_quotes' = quoteInsert(r_quotes, [by |-> p,
                                        quoteNumber |-> Val(r_count[p]).quoteNumber])
  /\ r_pc' = [r_pc EXCEPT ![p] = "pdf"]
  /\ UNCHANGED <<r_convo, r_snap, r_count>>
  /\ UNCHANGED <<mainVars, patchVars, pricingVars, validateVars, concVars, qualVars>>

\* generateQuotePdfBuffer returns, or throws into the handler's catch.
GeneratePdf(p) ==
  /\ r_pc[p] = "pdf"
  /\ \E pdfOk \in BOOLEAN :
       r_pc' = [r_pc EXCEPT ![p] = IF pdfOk THEN "commit" ELSE "failed"]
  /\ UNCHANGED <<r_convo, r_quotes, r_snap, r_count>>
  /\ UNCHANGED <<mainVars, patchVars, pricingVars, validateVars, concVars, qualVars>>

\* setConversationState after createDraftQuoteWithPdf has returned.
CommitState(p) ==
  /\ r_pc[p] = "commit"
  /\ r_convo' = Some([state |-> StateAfterQuote])
  /\ r_pc' = [r_pc EXCEPT ![p] = "done"]
  /\ UNCHANGED <<r_quotes, r_snap, r_count>>
  /\ UNCHANGED <<mainVars, patchVars, pricingVars, validateVars, concVars, qualVars>>

NextRace ==
  \E p \in Procs :
    \/ ReadConversation(p)
    \/ EvaluateGuard(p)
    \/ CountQuotes(p)
    \/ InsertQuote(p)
    \/ GeneratePdf(p)
    \/ CommitState(p)

SpecRace == InitRace /\ [][NextRace]_vars

----------------------------------------------------------------------------
(* Specification of the handler: messages of one lead, processed one at a   *)
(* time, against a store that starts empty.                                 *)

MaxQuotes == 2

\* An answer that carries everything at once.
FullFields ==
  [name |-> Some(Str("Ana")), email |-> Some(<<WS, "A@B.C">>),
   height_m |-> Some(14), height_ft |-> None, type |-> Some(BRAZO),
   activity |-> Some(GENERAL), terrain |-> Some(PISO_FIRME),
   city |-> Some(Str("Saltillo")), duration_days |-> Some(5)]

\* The answers of the extractor: nothing, one field, or everything.
ExtractedFields ==
  {NullExtraction, FullFields}
  \cup {[NullExtraction EXCEPT !.name = Some(Str("Ana"))]}
  \cup {[NullExtraction EXCEPT !.email = Some(e)] : e \in {<<WS, "A@B.C">>, Str("bad")}}
  \cup {[NullExtraction EXCEPT !.height_m = Some(14)]}
  \cup {[NullExtraction EXCEPT !.type = Some(BRAZO)]}
  \cup {[NullExtraction EXCEPT !.activity = Some(GENERAL)]}
  \cup {[NullExtraction EXCEPT !.terrain = Some(PISO_FIRME)]}
  \cup {[NullExtraction EXCEPT !.city = Some(c)] : c \in {Str("Saltillo"), Blank}}
  \cup {[NullExtraction EXCEPT !.duration_days = Some(d)] : d \in {0, 5, 7, 13}}

\* The text of the message with the extractor's own list of what it missed.
TextAndMissing ==
  { <<Str("hola"), <<>> >>, <<Str("hola"), AskOrder>>, <<EmptyString, AskOrder>> }

Init ==
  /\ MainIdle
  /\ PatchIdle
  /\ ValidateIdle
  /\ ConcIdle
  /\ AuxIdle
  /\ PricingIdle

\* The messages delivered: every text, with every answer of the extractor or
\* with its failure.
Post ==
  /\ Len(quotes) < MaxQuotes
  /\ \E tm \in TextAndMissing :
       \/ \E f \in ExtractedFields : WebhookPost(tm[1], Some(MkExt(f, tm[2])))
       \/ WebhookPost(tm[1], None)

Next ==
  \/ Post
  \/ PostWithoutMessage

Spec == Init /\ [][Next]_vars

----------------------------------------------------------------------------
(* Specification of the handler against a store that already holds a        *)
(* conversation tagged QUOTE_DRAFTED, the tag the guard of the handler reads *)
(* (currentState !== "QUOTE_DRAFTED"), with the lead, the complete           *)
(* qualification and the quote that go with it.                              *)

\* The complete rows the quoted lead can have answered with.
DraftedQualifications ==
  { patchQualificationFromExtract(
      EmptyQualification,
      [FullFields EXCEPT !.city = Some(Str(c)), !.duration_days = Some(d)]) :
      c \in {"Saltillo", "Monterrey"}, d \in {5, 7} }

InitStored ==
  /\ lead = Some([name |-> Some(Str("Ana")), email |-> Some(Str("a@b.c"))])
  /\ convo = Some([state |-> "QUOTE_DRAFTED"])
  /\ \E q \in DraftedQualifications :
       /\ qualification = Some(q)
       /\ quotes = <<quoteRow(1, q, resolveTransportByCity(q.city),
                              buildOrderedOptions(Val(q.durationDays),
                                                  resolveTransportByCity(q.city)))>>
  /\ turn = None
  /\ PatchIdle
  /\ PricingIdle
  /\ ValidateIdle
  /\ ConcIdle
  /\ AuxIdle

SpecStored == InitStored /\ [][Next]_vars

----------------------------------------------------------------------------
(* Specification of the handler with a lead who answers what is asked: each  *)
(* message carries a value for the field the last reply asked for and        *)
(* nothing else, the extractor succeeds and no external call fails. The lead *)
(* writes until the quote is there.                                          *)

\* The values the extractor can supply for field k.
AnswerValues(k) ==
  CASE k = "name" -> {Some(Str("Ana"))}
    [] k = "height_m" -> {Some(14)}
    [] k = "type" -> {Some(BRAZO), Some(TIJERA)}
    [] k = "activity" -> {Some(GENERAL), Some(PINTURA)}
    [] k = "terrain" -> {Some(PISO_FIRME), Some(TERRACERIA)}
    [] k = "city" -> {Some(Str("Saltillo")), Some(Str("Monterrey"))}
    [] k = "duration_days" -> {Some(0), Some(5), Some(31)}
    [] k = "email" -> {Some(<<WS, "A@B.C">>)}

\* The field the last reply asked for, none when it asked for nothing.
AskedField ==
  IF turn # None /\ Val(turn).reply[1] \in {"ask", "retry"}
  THEN Some(Val(turn).reply[2]) ELSE None

\* The extractions of the next message.
AnswerExtractions ==
  IF AskedField = None THEN {NullExtraction}
  ELSE {[NullExtraction EXCEPT ![Val(AskedField)] = v] :
          v \in AnswerValues(Val(AskedField))}

\* One message of the answering lead; generateQuotePdfBuffer does not throw.
AnswerPost ==
  /\ quotes = <<>>
  /\ \E f \in AnswerExtractions : WebhookPost(Str("hola"), Some(MkExt(f, <<>>)))
  /\ ~(Val(turn').outcome = "error" /\ Val(turn').createdQuote)

NextProgress == AnswerPost

\* Every message the lead sends is handled.
SpecProgress == Init /\ [][NextProgress]_vars /\ WF_vars(NextProgress)

----------------------------------------------------------------------------
(* Properties of the conversation state machine *)

\* C1: for messages of one lead processed one at a time, at most one Quote
\* record is ever created for that lead.
AtMostOneQuotePerLead == Len(quotes) <= 1

QuoteTurnStoresQuoteDrafted ==
  (turn # None /\ Val(turn).outcome = "quote")
    => Val(convo).state = "QUOTE_DRAFTED"

----------------------------------------------------------------------------
(* Properties of the qualification accumulator *)

StringFields == {"liftType", "activity", "terrain", "city"}
NumberFields == {"heightMeters", "durationDays"}

\* After a patch of row before with extraction ext: no string column holds "",
\* no column that held a value holds null, and a column whose extracted value
\* is null holds what it held.
KeepsStored(before, after, ext) ==
  /\ \A f \in StringFields : after[f] # Some(EmptyString)
  /\ \A f \in QFields : before[f] # None => after[f] # None
  /\ \A f \in QFields : ext[ExtractKey(f)] = None => after[f] = before[f]

\* C4: patchQualificationFromExtract never stores an empty string and never
\* replaces a stored non-null value with null; a field whose extracted value
\* is null keeps its stored value. Holds for both revisions of the function.
PatchNeverErases ==
  p_pc >= 1 => /\ KeepsStored(p_q0, p_q, p_ext)
               /\ KeepsStored(p_q0, p_qc, p_ext)

\* C4, the example: a stored height, an extraction with height null and the
\* lift type set, give the old height with the new lift type.
PatchNeverErasesWitness ==
  /\ p_pc = 1
  /\ p_q0.heightMeters = Some(10)
  /\ p_q0.liftType = Some(TIJERA)
  /\ p_ext.height_m = None
  /\ p_ext.type = Some(BRAZO)
  /\ p_q.heightMeters = Some(10)
  /\ p_q.liftType = Some(BRAZO)
  /\ p_qc = p_q

\* C5: applying the same extraction twice in succession changes the row at
\* most on the first call; the second call leaves it as the first left it.
PatchIdempotent ==
  [][p_pc = 1 => (p_q' = p_q /\ p_qc' = p_qc)]_vars

\* C5: a second call after a first one that did change the row.
PatchIdempotentWitness ==
  /\ p_pc = 2
  /\ p_q # p_q0
  /\ p_qc # p_q0

ValidQualification(q) ==
  /\ q.heightMeters = None \/ Val(q.heightMeters) > 0
  /\ q.heightFeet = None \/ Val(q.heightFeet) > 0
  /\ q.durationDays = None \/ Val(q.durationDays) > 0
  /\ q.liftType \in {None, Some(BRAZO), Some(TIJERA)}
  /\ q.activity \in {None, Some(PINTURA), Some(GENERAL)}
  /\ q.terrain \in {None, Some(PISO_FIRME), Some(TERRACERIA)}
  /\ q.city = None \/ (Val(q.city) # EmptyString /\ Trim(Val(q.city)) = Val(q.city))

\* C6: every field of the stored Qualification, in every reachable state, is
\* null or a valid normalized value.
StoredQualificationValid ==
  qualification # None => ValidQualification(Val(qualification))

----------------------------------------------------------------------------
(* Properties of the pricing engine *)

\* The per-day rate of the canonical table.
CanonicalRate(d) ==
  IF d <= 3 THEN 2300
  ELSE IF d <= 6 THEN 2200
  ELSE IF d <= 14 THEN 1800
  ELSE IF d <= 21 THEN 1500
  ELSE 1050

\* The rental base of the canonical table, with its two fixed bundles.
CanonicalRental(d) ==
  IF d = 7 THEN 15400 ELSE IF d = 30 THEN 31500 ELSE d * CanonicalRate(d)

\* C8: the rental base of every option the engine returns follows the
\* canonical table (2300 for 1..3 days, 2200 for 4..6, 15400 at 7, 1800 for
\* 8..14, 1500 for 15..21, 1050 from 22 on, 31500 at 30).
RentalFollowsCanonicalTable ==
  (pr_pc = "out" /\ pr_d > 0) =>
    \A i \in 1..Len(Val(pr_res).options) :
      Val(pr_res).options[i].rentalBaseMx
        = CanonicalRental(Val(pr_res).options[i].durationDays)

\* The day counts of a sequence of options.
DaysOf(options) == [i \in 1..Len(options) |-> options[i].durationDays]

\* C9: for every valid requested duration d, computeComparativeOptions returns
\* between 1 and 3 options, the first of d days exactly, no two of the same
\* number of days.
OptionsBoundedDistinct ==
  (pr_pc = "out" /\ pr_d > 0) =>
    LET days == DaysOf(Val(pr_res).options) IN
    /\ Len(days) >= 1
    /\ Len(days) <= 3
    /\ days[1] = pr_d
    /\ \A i, j \in 1..Len(days) : i # j => days[i] # days[j]

\* C9: the request for 7 days, where the anchor 7 has to be skipped.
OptionsBoundedDistinctWitness ==
  /\ pr_pc = "out"
  /\ pr_d = 7
  /\ DaysOf(Val(pr_res).options) = <<7, 30, 1>>

\* The reference day counts the requested duration d is to be compared with.
ExpectedReferenceDays(d) ==
  IF d = 7 THEN <<30, 1>> ELSE IF d = 30 THEN <<7, 1>> ELSE <<7, 30>>

\* C10: the references are the anchors 7 and 30 without d, filled with the
\* 1-day anchor ([30, 1] for d = 7, [7, 1] for d = 30, [7, 30] otherwise), and
\* these are the reference options that reach the quote, after the requested one.
ReferencesReachQuote ==
  (pr_pc = "out" /\ pr_d > 0) =>
    /\ DaysOf(Val(pr_res).references) = ExpectedReferenceDays(pr_d)
    /\ DaysOf(Val(pr_lines)) = <<pr_d>> \o ExpectedReferenceDays(pr_d)

\* subtotal x 0.16 rounded to the nearest whole peso, a half rounding up.
VatHalfUp(subtotal) == (subtotal * 16 + 50) \div 100

\* C11: every option has subtotal = rental base + transport, vat = the
\* subtotal times the VAT rate rounded half up, total = subtotal + vat, in
\* whole pesos; 5 days with transport 600 give 11000, 11600, 1856 and 13456.
OptionAmounts ==
  (pr_pc = "out" /\ pr_d > 0) =>
    /\ \A i \in 1..Len(Val(pr_res).options) :
         LET o == Val(pr_res).options[i] IN
         /\ o.rentalBaseMx = rentalBase45ftMx(o.durationDays)
         /\ o.transportMx = pr_t
         /\ o.subtotalMx = o.rentalBaseMx + pr_t
         /\ o.vatMx = VatHalfUp(o.subtotalMx)
         /\ o.totalMx = o.subtotalMx + o.vatMx
    /\ (pr_d = 5 /\ pr_t = 600) =>
         /\ Val(pr_res).primary.rentalBaseMx = 11000
         /\ Val(pr_res).primary.subtotalMx = 11600
         /\ Val(pr_res).primary.vatMx = 1856
         /\ Val(pr_res).primary.totalMx = 13456

\* C11: the call for 5 days with transport 600.
OptionAmountsWitness ==
  /\ pr_pc = "out"
  /\ pr_d = 5
  /\ pr_t = 600
  /\ Val(pr_res).options[1].totalMx = 13456

\* A finite whole number of days above 0.
PositiveInteger(duration) ==
  duration.kind = "number" /\ duration.twice > 0 /\ duration.twice % 2 = 0

\* C12: the pricing call rejects every durationDays that is not a finite
\* integer greater than 0 and every equipmentModel outside the supported set.
PricingRejectsInvalidInput ==
  (v_pc = "out" /\ (~PositiveInteger(Val(v_duration)) \/ v_model = Some("60FT")))
    => v_threw

----------------------------------------------------------------------------
(* Properties of the quote *)

\* The amounts of the option priced for exactly the duration of the quote.
PrimaryOf(quote) ==
  computeComparativeOptions(Val(quote.meta.durationDays),
                            quote.transportRoundTripMx).primary

\* C13: the subtotal, VAT and total on every Quote header are those of the
\* primary option, the one computed for the exact requested duration; the
\* total of the d+1 or d+2 candidate of the step note is never the header's.
HeaderFromPrimary ==
  /\ \A i \in 1..Len(quotes) :
       /\ quotes[i].subtotalMx = PrimaryOf(quotes[i]).subtotalMx
       /\ quotes[i].vatMx = PrimaryOf(quotes[i]).vatMx
       /\ quotes[i].totalMx = PrimaryOf(quotes[i]).totalMx
       /\ quotes[i].items[1].durationDays = Val(quotes[i].meta.durationDays)
       /\ quotes[i].items[1].amountMx = quotes[i].totalMx
  /\ (turn # None /\ Val(turn).note # None) =>
       quotes[Len(quotes)].totalMx
         # computeComparativeOptions(Val(Val(turn).note),
                                     quotes[Len(quotes)].transportRoundTripMx)
             .primary.totalMx

\* C13: a quote for 13 days, for which the note recommends 14 days.
HeaderFromPrimaryWitness ==
  /\ turn # None
  /\ Val(turn).outcome = "quote"
  /\ Val(turn).note = Some(14)
  /\ Val(quotes[Len(quotes)].meta.durationDays) = 13
  /\ quotes[Len(quotes)].totalMx = PrimaryOf(quotes[Len(quotes)]).totalMx

\* C14: every Quote has its lines numbered 1..n, the first for the requested
\* duration, followed by at most two reference lines: never more than 3
\* lines, no two of the same durationDays.
QuoteLinesBounded ==
  \A i \in 1..Len(quotes) :
    LET items == quotes[i].items IN
    /\ Len(items) >= 1
    /\ Len(items) <= 3
    /\ \A j \in 1..Len(items) : items[j].lineNo = j
    /\ items[1].durationDays = Val(quotes[i].meta.durationDays)
    /\ \A j, k \in 1..Len(items) :
         j # k => items[j].durationDays # items[k].durationDays

----------------------------------------------------------------------------
(* Properties of the dialogue *)

\* The priority order of the resolver.
PriorityOrder == <<"name", "height_m", "type", "activity", "terrain", "city",
                   "duration_days", "email">>

\* A stored string that answers nothing: null, empty or blank.
NoText(x) == x = None \/ Trim(Val(x)) = EmptyString

\* Whether field k is unmet in the stored lead and qualification.
Unmet(k) ==
  CASE k = "name" -> NoText(Val(lead).name)
    [] k = "height_m" -> Val(qualification).heightMeters = None
    [] k = "type" -> NoText(Val(qualification).liftType)
    [] k = "activity" -> NoText(Val(qualification).activity)
    [] k = "terrain" -> NoText(Val(qualification).terrain)
    [] k = "city" -> NoText(Val(qualification).city)
    [] k = "duration_days" -> Val(qualification).durationDays = None
    [] k = "email" -> NoText(Val(lead).email)

UnmetFields == SelectSeq(PriorityOrder, Unmet)

QuoteOnlyWhenComplete ==
  (turn # None /\ Val(turn).outcome # "ignored") =>
    /\ Val(turn).createdQuote => Len(UnmetFields) = 0
    /\ Len(UnmetFields) > 0 =>
         (~Val(turn).createdQuote /\ Val(convo).state = "TECH_QUALIFICATION")

\* C17: in a turn in which the extractor threw, the stored lead and
\* qualification are as they were before the turn, the missing fields are
\* those of that record and the turn asks its question; with nothing missing
\* the turn goes on to the quote or the acknowledgment.
ExtractorFailureKeepsRecord ==
  [][(turn' # None /\ Val(turn').extractorFailed) =>
       LET before == IF qualification = None THEN EmptyQualification
                     ELSE Val(qualification)
           leadBefore == IF lead = None THEN [name |-> None, email |-> None]
                         ELSE Val(lead)
           missing == missingFields(before, leadBefore.email)
       IN /\ qualification' = Some(before)
          /\ lead' = Some(leadBefore)
          /\ Len(missing) > 0 =>
               /\ Val(turn').outcome = "question"
               /\ Val(turn').reply = IF leadBefore.name = None
                                     THEN <<"ask", "name">>
                                     ELSE <<"ask", missing[1]>>
          /\ Len(missing) = 0 => Val(turn').outcome \in {"quote", "ack", "error"}
    ]_vars

\* C17: the extractor fails for a lead whose name and height are stored; the
\* turn asks for the lift type.
ExtractorFailureKeepsRecordWitness ==
  /\ turn # None
  /\ Val(turn).extractorFailed
  /\ Val(turn).outcome = "question"
  /\ Val(lead).name # None
  /\ Val(qualification).heightMeters = Some(14)
  /\ Val(turn).reply = <<"ask", "type">>

MetBeforeDuration ==
  \A k \in {"name", "height_m", "type", "activity", "terrain", "city"} : ~Unmet(k)

\* C19: a value that fails validation is still missing: a malformed email is
\* never stored as the contact email, and while the duration on record is not
\* a valid one the turn asks a question, the duration question once the
\* fields before it are met, instead of progressing to the quote.
InvalidValueAskedAgain ==
  (turn # None /\ Val(turn).outcome # "ignored") =>
    /\ Val(lead).email # None => IsEmail(Val(Val(lead).email))
    /\ (/\ Val(qualification).durationDays # None
        /\ Val(Val(qualification).durationDays) <= 0)
         => /\ Val(turn).outcome = "question"
            /\ MetBeforeDuration => Val(turn).reply[2] = "duration_days"

----------------------------------------------------------------------------
(* Properties of concurrent patches *)

\* The value of column f once both handlers have written: that of the later
\* update if it names f, else that of the earlier one if it names f, else the
\* value stored before.
ComposedValue(f) ==
  LET later == Val(c_data[c_order[2]])
      earlier == Val(c_data[c_order[1]])
  IN IF later[f] # None THEN later[f]
     ELSE IF earlier[f] # None THEN earlier[f]
     ELSE Val(c_row0)[f]

\* C20: two concurrent patches compose field by field: the later patch wins
\* on the fields it contains, a value of the earlier patch survives where the
\* later one omits the field, and no interleaving resets a stored field to null.
PatchesCompose ==
  /\ c_row0 # None =>
       \A f \in QFields : Val(c_row0)[f] # None => Val(c_row)[f] # None
  /\ Len(c_order) >= 1 =>
       \A f \in QFields :
         Val(c_data[c_order[1]])[f] # None => Val(c_row)[f] # None
  /\ Len(c_order) = 2 => \A f \in QFields : Val(c_row)[f] = ComposedValue(f)

\* C20: handler 1 builds first and writes last; its height replaces the other
\* one's, and the city only handler 2 sent survives.
PatchesComposeWitness ==
  /\ c_order = <<2, 1>>
  /\ c_ext[1].height_m = Some(14)
  /\ c_ext[2].height_m = Some(20)
  /\ c_ext[1].city = None
  /\ c_ext[2].city = Some(Str("Arteaga"))
  /\ Val(c_row0).city = Some(Str("Monterrey"))
  /\ Val(c_row).heightMeters = Some(14)
  /\ Val(c_row).city = Some(Str("Arteaga"))

----------------------------------------------------------------------------
(* Properties of getOrCreateQualification *)

\* C21: getOrCreateQualification is an idempotent creation: the first call
\* creates a row with every field null, a call that finds the row returns it
\* and leaves the store as it is, and the lead never has more than one row,
\* also when two first-contact messages are handled concurrently.
QualificationCreatedOnce ==
  /\ [](Len(g_rows) <= 1)
  /\ [][\A p \in Procs :
          (g_pc[p] = "create" /\ g_pc'[p] # "create") =>
            /\ g_seen[p] # None =>
                 (g_rows' = g_rows /\ g_ret'[p] = g_seen[p] /\ g_pc'[p] = "patch")
            /\ (g_seen[p] = None /\ g_rows = <<>>) =>
                 (/\ g_rows' = <<EmptyQualification>>
                  /\ g_ret'[p] = Some(EmptyQualification))
            /\ (g_seen[p] = None /\ g_rows # <<>>) => g_rows' = g_rows]_vars

\* C21: handler 1 created the row and patched a height into it; the second
\* message of handler 2 found that row and got it back as it is stored.
QualificationCreatedOnceWitness ==
  /\ g_pc = <<"idle", "patch">>
  /\ g_msgs = <<1, 2>>
  /\ Len(g_rows) = 1
  /\ g_rows[1].heightMeters = Some(14)
  /\ g_ret[2] = Some(g_rows[1])

----------------------------------------------------------------------------
(* Properties of the Lead row *)

\* C22: once the lead's name or email is set, no turn and no quote creation
\* sets it back to null or to an empty value.
LeadFieldsNeverCleared ==
  [][(lead # None /\ lead' # None) =>
       /\ TruthyStr(Val(lead).name) => TruthyStr(Val(lead').name)
       /\ TruthyStr(Val(lead).email) => TruthyStr(Val(lead').email)]_vars

\* C22: the lead's name and email were stored in an earlier turn; this turn's
\* extraction carried neither, a quote was created, and both are still there.
LeadFieldsNeverClearedWitness ==
  /\ turn # None
  /\ Val(turn).createdQuote
  /\ Val(lead).name = Some(Str("Ana"))
  /\ Val(lead).email = Some(Str("a@b.c"))
  /\ Val(qualification).durationDays = Some(13)

----------------------------------------------------------------------------
(* Properties of the quote commit *)

\* The conversation carries the state of a lead that has its quote: the tag the
\* guard reads, or the state the handler writes after the quote.
QuoteCommitted(c) ==
  c # None /\ Val(c).state \in {"QUOTE_DRAFTED", StateAfterQuote}

\* C23: creating the Quote and moving the conversation into the quoted state
\* are one committed step: a turn that stores a Quote also stores the state,
\* and a turn that stores the state has stored a Quote.
QuoteAndStateCommitTogether ==
  [][/\ (Len(quotes') > Len(quotes)) => QuoteCommitted(convo')
     /\ (~QuoteCommitted(convo) /\ QuoteCommitted(convo')) =>
          Len(quotes') > Len(quotes)]_vars

----------------------------------------------------------------------------
(* Properties of concurrent quote creation *)

\* C24: the duplicate-quote guard is decided on the conversation state as it
\* is persisted right before the quote is committed: a handler that read a
\* conversation without its quote inserts no Quote once the other handler has
\* committed the quoted state.
GuardSeesCommittedState ==
  [][\A p \in Procs :
       (r_pc[p] = "insert" /\ r_pc'[p] = "pdf" /\ ~QuoteCommitted(r_snap[p]))
         => ~QuoteCommitted(r_convo)]_vars

\* The Quote row handler p inserted.
QuoteBy(p) == CHOOSE q \in {r_quotes[i] : i \in 1..Len(r_quotes)} : q.by = p

Inserted(p) == r_pc[p] \in {"pdf", "commit", "failed", "done"}

\* C29: the quote number is the count read plus one and the count is not read
\* atomically with the insert: two creations that both count before either
\* inserts store the same quoteNumber; creations that do not interleave store
\* distinct numbers, the later one the greater.
QuoteNumbersRace ==
  (Inserted(1) /\ Inserted(2)) =>
    /\ \A p \in Procs : QuoteBy(p).quoteNumber = Val(r_count[p]).counted + 1
    /\ Val(r_count[1]).counted = Val(r_count[2]).counted
         => QuoteBy(1).quoteNumber = QuoteBy(2).quoteNumber
    /\ \A p, o \in Procs :
         Val(r_count[p]).counted < Val(r_count[o]).counted
           => QuoteBy(p).quoteNumber < QuoteBy(o).quoteNumber

\* C29: both handlers counted the one stored Quote before either inserted, and
\* both stored quoteNumber 2.
QuoteNumbersRaceWitness ==
  /\ Inserted(1)
  /\ Inserted(2)
  /\ Val(r_count[1]).counted = 1
  /\ Val(r_count[2]).counted = 1
  /\ QuoteBy(1).quoteNumber = 2
  /\ QuoteBy(2).quoteNumber = 2

----------------------------------------------------------------------------
(* Properties of the empty patch *)

\* Every qualification field of the extraction is null, absent or empty.
NothingExtracted(ext) ==
  /\ \A k \in {"height_m", "height_ft", "duration_days"} : ext[k] = None
  /\ \A k \in {"type", "activity", "terrain", "city"} :
       ext[k] = None \/ Val(ext[k]) = EmptyString

\* C25: a patch whose sparse update is empty writes nothing to the store and
\* returns null; the stored row is as it was.
EmptyPatchIsNoOp ==
  [][(p_pc' = p_pc + 1 /\ NothingExtracted(p_ext)) =>
       /\ p_q' = p_q
       /\ p_writes' = p_writes
       /\ p_ret' = None]_vars

\* C25: a row with values stored was patched with an extraction of nulls and
\* an empty city.
EmptyPatchIsNoOpWitness ==
  /\ p_pc = 1
  /\ NothingExtracted(p_ext)
  /\ p_ext.city = Some(EmptyString)
  /\ p_q0.heightMeters = Some(10)
  /\ p_q = p_q0
  /\ p_ret = None
  /\ p_writes = 0

----------------------------------------------------------------------------
(* Properties of the retry prompt *)

\* The turn is a failed attempt to answer field k: the extractor lists k among
\* the fields it could not find and the text is not blank.
FailedAttempt(k) ==
  LET inbound == Val(Val(turn).inbound)
  IN /\ inbound.missing # None
     /\ SeqIncludes(Val(inbound.missing), k)
     /\ Trim(inbound.text) # EmptyString

\* C26: a turn is a retry exactly when the extractor's own missing list holds
\* the first unmet field and the text is not blank; the reply is then the
\* clarifying prompt for that field and otherwise the generic question for it.
RetryExactlyOnFailedAttempt ==
  (turn # None /\ Val(turn).outcome = "question") =>
    Val(turn).reply = <<IF FailedAttempt(UnmetFields[1]) THEN "retry" ELSE "ask",
                        UnmetFields[1]>>

----------------------------------------------------------------------------
(* Properties of the name step *)

\* C27: a conversation whose lead has no name is in ASK_NAME after its first
\* turn and stays there until a name is resolved: no conversation is in
\* TECH_QUALIFICATION or a later state while the lead's name is null.
NameBeforeQualification ==
  (turn # None /\ Val(turn).outcome # "ignored") =>
    /\ Val(lead).name = None => Val(convo).state = "ASK_NAME"
    /\ Val(convo).state \in {"TECH_QUALIFICATION", "READY_FOR_MATCH", "QUOTE_DRAFTED"}
         => Val(lead).name # None

----------------------------------------------------------------------------
(* Properties of the comparison table *)

\* The price per day of option i of the quote lines.
LinePerDay(i) ==
  (2 * Val(pr_lines)[i].rentalBaseMx + Val(pr_lines)[i].durationDays)
    \div (2 * Val(pr_lines)[i].durationDays)

\* C28: the option flagged as best cost per day has the smallest positive
\* price per day, round(rentalBase / durationDays), among the options; of
\* several options with that price the earliest is flagged, and at most one
\* option is flagged.
BestPerDayIsEarliestMinimum ==
  (pr_pc = "out" /\ pr_lines # None) =>
    LET positive == {i \in 1..Len(Val(pr_lines)) : LinePerDay(i) > 0}
    IN /\ Cardinality(pr_best) <= 1
       /\ positive # {} => Cardinality(pr_best) = 1
       /\ \A b \in pr_best :
            /\ b \in positive
            /\ \A i \in positive :
                 /\ LinePerDay(b) <= LinePerDay(i)
                 /\ LinePerDay(i) = LinePerDay(b) => b <= i

\* C28: 31 days cost 1050 a day, as the 30-day reference does; the requested
\* option comes first and is the one flagged.
BestPerDayIsEarliestMinimumWitness ==
  /\ pr_pc = "out"
  /\ pr_d = 31
  /\ Len(Val(pr_lines)) = 4
  /\ LinePerDay(1) = 1050
  /\ LinePerDay(4) = 1050
  /\ pr_best = {1}

----------------------------------------------------------------------------
(* Properties of progress *)

\* C30: with a lead who answers each question with a non-null value, an
\* extractor that succeeds and no failing external call, every answered
\* question leaves fewer fields unmet, no question is for a field that is
\* stored, and a Quote is created after finitely many turns: no stored record
\* leaves the lead complete and without a quote for ever.
QualificationEndsInQuote ==
  /\ [][(AskedField # None /\ turn' # turn) =>
          Len(UnmetFields') < Len(UnmetFields)]_vars
  /\ [](AskedField # None => Unmet(Val(AskedField)))
  /\ <>(quotes # <<>>)

====
